---- MODULE Spec2Model ----
(***************************************************************************)
(* Chat client (ChatPage in src/src/app/page.tsx, lines 23-349): the      *)
(* conversation view-state, its history loader and the streamed-response  *)
(* consumer; and the Sidebar (page.tsx 918-1008, with rename and delete   *)
(* from src/unnamed/part_001 413-441): the health check, the cached       *)
(* session list and its edits.                                             *)
(*                                                                         *)
(* Text values (message contents, the input field, the buffers) are       *)
(* sequences of one-character strings, so that trim, split, startsWith    *)
(* and JSON.parse are computed and not assumed.  The empty string is <<>>. *)
(*                                                                         *)
(* The response body is a sequence of wire symbols.  Each symbol stands   *)
(* for a run of bytes of the real stream:                                  *)
(*    "da" "ta: "   the two halves of the prefix `data: `                  *)
(*    "{tool"       `{"type":"tool","content":"`                         *)
(*    "{text"       `{"type":"text","content":"`                         *)
(*    "{other"      `{"type":"ping","content":"` (a type the page ignores) *)
(*    "{none"       `{"content":"` (no type field)                        *)
(*    ": "          the start of a comment line `: `                       *)
(*    "ev"          the field line `event: message`                        *)
(*    "a" "b" "s"   one character of the content string                    *)
(*    "\"}"         the closing `"}` of the JSON object                   *)
(*    "\n"          one line feed                                          *)
(*    "c3" "a9"     the two bytes of the code point U+E9 in UTF-8          *)
(* A read chunk is a run of consecutive symbols of the body.               *)
(***************************************************************************)
EXTENDS Integers, Sequences, FiniteSets, TLC

VARIABLES messages, input, isLoading, currentSessionId, sessionIdFromUrl,
          streamingMessage, liveToolActivity, skipHistoryLoad,
          streams, historyFetches, uuidCount, navCount, lastEvent,
          systemStatus, systemFailures, prevStatusRef, healthChecks,
          healthResults, debounceTimer, timers, mounted,
          sessions, isLoadingSessions, sessionFetches, backend, edits

vars == <<messages, input, isLoading, currentSessionId, sessionIdFromUrl,
          streamingMessage, liveToolActivity, skipHistoryLoad,
          streams, historyFetches, uuidCount, navCount, lastEvent,
          systemStatus, systemFailures, prevStatusRef, healthChecks,
          healthResults, debounceTimer, timers, mounted,
          sessions, isLoadingSessions, sessionFetches, backend, edits>>

\* the ChatPage's part of the state
pageVars == <<messages, input, isLoading, currentSessionId, sessionIdFromUrl,
              streamingMessage, liveToolActivity, skipHistoryLoad,
              streams, historyFetches, uuidCount, navCount, lastEvent>>

\* the health check's part of the Sidebar's state
statusVars == <<systemStatus, systemFailures, prevStatusRef, healthChecks,
                healthResults, debounceTimer, timers, mounted>>

\* the session list's part of the Sidebar's state, and the backend's list
listVars == <<sessions, isLoadingSessions, sessionFetches, backend, edits>>

(***************************************************************************)
(* Bounds of the model.                                                    *)
(***************************************************************************)
\* number of submits (response cycles) in one behaviour
MaxCycles == 2
\* number of URL changes (session link, New Chat) in one behaviour
MaxNav == 1
\* number of health checks, and of session-list fetches, the Sidebar's own
\* triggers leave in flight at once
MaxInFlight == 2
\* number of renames and deletes in one behaviour
MaxEdits == 2

(***************************************************************************)
(* Sessions, inputs and backend data.                                      *)
(***************************************************************************)
E == <<>>

\* the sessions the backend already holds (targets of the sidebar links)
Sessions == {"A"}

\* values uuidv4() returns, in the order it returns them
UuidPool == <<"u1", "u2", "u3", "u4">>

uuidv4(n) == UuidPool[n + 1]

\* what the user can type into the input field
Inputs == {E, <<" ">>, <<" ", "h", " ">>}

Message(role, content) == [role |-> role, content |-> content]

\* GET /history/{s}: the transcript the backend returns for session s
HistoryOf(s) ==
    IF s = "A"
    THEN <<Message("human", <<"p">>), Message("ai", <<"q">>)>>
    ELSE <<Message("human", <<"n">>)>>

Session(id, title) == [id |-> id, title |-> title]

\* GET /sessions: the list the backend holds at the start
SessionList0 == <<Session("A", "t"), Session("B", "t")>>

\* the titles a rename can give
Titles == {"t", "r"}

\* Endpoints to health-check (GET, must return 2xx), by label
HEALTH_ENDPOINTS == <<"Sessions API">>

\* how one GET of the health check can end
Outcomes == {"ok", "non2xx", "throw"}

\* one outcome per endpoint
HealthOutcomes == [1..Len(HEALTH_ENDPOINTS) -> Outcomes]

(***************************************************************************)
(* String operations of the handlers.                                      *)
(***************************************************************************)
IsSpace(c) == c \in {" ", "\n"}

RECURSIVE TrimStart(_)
TrimStart(s) ==
    IF s # E /\ IsSpace(Head(s)) THEN TrimStart(Tail(s)) ELSE s

RECURSIVE TrimEnd(_)
TrimEnd(s) ==
    IF s # E /\ IsSpace(s[Len(s)]) THEN TrimEnd(SubSeq(s, 1, Len(s) - 1)) ELSE s

\* String.prototype.trim
Trim(s) == TrimEnd(TrimStart(s))

\* chunk.split("\n\n"): cut at each non-overlapping "\n\n", left to right
RECURSIVE Split(_)
Split(s) ==
    LET hits == {i \in 1..(Len(s) - 1) : s[i] = "\n" /\ s[i + 1] = "\n"}
    IN  IF hits = {} THEN <<s>>
        ELSE LET i == CHOOSE j \in hits : \A k \in hits : j <= k
             IN  <<SubSeq(s, 1, i - 1)>> \o Split(SubSeq(s, i + 2, Len(s)))

\* variant: every fragment is taken for a record
StartsWithData_Any(line) == TRUE

\* line.startsWith("data: ")
StartsWithData(line) == Len(line) >= 2 /\ line[1] = "da" /\ line[2] = "ta: "

\* line.replace("data: ", ""): the first occurrence is removed
StripData(line) ==
    LET hits == {i \in 1..(Len(line) - 1) : line[i] = "da" /\ line[i + 1] = "ta: "}
    IN  IF hits = {} THEN line
        ELSE LET i == CHOOSE j \in hits : \A k \in hits : j <= k
             IN  SubSeq(line, 1, i - 1) \o SubSeq(line, i + 2, Len(line))

\* characters of one byte in UTF-8
AsciiChars == {"a", "b", "s"}

\* the characters a content string is made of here: U+E9 takes two bytes,
\* U+FFFD is the replacement character
ContentChars == AsciiChars \cup {"U+E9", "U+FFFD"}

\* TextEncoder: the bytes of a text
RECURSIVE Utf8(_)
Utf8(text) ==
    IF text = E THEN E
    ELSE (CASE Head(text) = "U+E9" -> <<"c3", "a9">>
            [] Head(text) = "U+FFFD" -> <<"ef", "bf", "bd">>
            [] OTHER -> <<Head(text)>>) \o Utf8(Tail(text))

\* the decoder's loop: `held` is a lead byte waiting for its continuation
RECURSIVE DecodeFrom(_, _, _)
DecodeFrom(held, bytes, out) ==
    IF bytes = E THEN [text |-> out, pending |-> held]
    ELSE LET b == Head(bytes)
         IN  IF held # E
             THEN IF b = "a9"
                  THEN DecodeFrom(E, Tail(bytes), Append(out, "U+E9"))
                  ELSE DecodeFrom(E, bytes, Append(out, "U+FFFD"))
             ELSE IF b = "c3" THEN DecodeFrom(<<b>>, Tail(bytes), out)
             ELSE IF b = "a9"
                  THEN DecodeFrom(E, Tail(bytes), Append(out, "U+FFFD"))
             ELSE DecodeFrom(E, Tail(bytes), Append(out, b))

\* variant: decoder.decode(value), every chunk decoded on its own and an
\* unfinished code point at its end replaced
Decode_NoStream(pending, bytes) ==
    LET d == DecodeFrom(E, bytes, E)
    IN  [text |-> IF d.pending = E THEN d.text ELSE Append(d.text, "U+FFFD"),
         pending |-> E]

\* decoder.decode(value, { stream: true }): the bytes held back by the last
\* call come first, an unfinished code point at the end is held back
Decode(pending, bytes) == DecodeFrom(pending, bytes, E)

ParseError == [ok |-> FALSE, type |-> "", content |-> E]

\* JSON.parse(payload): surrounding white space is allowed; the text must be
\* one complete object; the result carries data.type and data.content
JSONParse(payload) ==
    LET t == Trim(payload)
        n == Len(t)
    IN  IF /\ n >= 2
           /\ t[1] \in {"{tool", "{text", "{other", "{none"}
           /\ t[n] = "\"}"
           /\ \A i \in 2..(n - 1) : t[i] \in ContentChars
        THEN [ok |-> TRUE,
              type |-> CASE t[1] = "{tool" -> "tool"
                         [] t[1] = "{text" -> "text"
                         [] t[1] = "{other" -> "ping"
                         [] OTHER -> "undefined",
              content |-> SubSeq(t, 2, n - 1)]
        ELSE ParseError

(***************************************************************************)
(* The server side of POST /chat: a script is the sequence of records the  *)
(* server writes.  Besides "tool" and "text" records there are             *)
(*    "bad"      a record whose JSON is cut short                           *)
(*    "other"    a well-formed record of a type the page does not know     *)
(*    "none"     a well-formed record without a type field                 *)
(*    "comment"  a fragment that is a comment line, without the prefix     *)
(*    "raw"      a fragment that is the JSON of a tool record, without the *)
(*               prefix                                                    *)
(*    "named"    a fragment that starts with an `event:` line, followed by *)
(*               the `data: ` line of a text record                        *)
(***************************************************************************)
Item(type, content) == [type |-> type, content |-> content]

Encode(item) ==
    CASE item.type = "bad" ->
           <<"da", "ta: ", "{text">> \o Utf8(item.content) \o <<"\n", "\n">>
      [] item.type = "comment" ->
           <<": ">> \o Utf8(item.content) \o <<"\n", "\n">>
      [] item.type = "raw" ->
           <<"{tool">> \o Utf8(item.content) \o <<"\"}", "\n", "\n">>
      [] item.type = "named" ->
           <<"ev", "\n", "da", "ta: ", "{text">> \o Utf8(item.content)
           \o <<"\"}", "\n", "\n">>
      [] OTHER ->
           <<"da", "ta: ", CASE item.type = "tool" -> "{tool"
                             [] item.type = "text" -> "{text"
                             [] item.type = "other" -> "{other"
                             [] OTHER -> "{none">>
           \o Utf8(item.content) \o <<"\"}", "\n", "\n">>

RECURSIVE WireOf(_)
WireOf(script) ==
    IF script = E THEN E ELSE Encode(Head(script)) \o WireOf(Tail(script))

ScriptList == <<
    \* the end-to-end example: a tool notice, then two cumulative snapshots
    <<Item("tool", <<"s">>), Item("text", <<"a">>), Item("text", <<"a", "b">>)>>,
    \* a malformed record between two valid ones, a tool notice after text
    <<Item("text", <<"b">>), Item("bad", <<"a">>), Item("tool", <<"s">>)>>,
    \* the server closes without writing a record
    <<>>,
    \* two tool notices in a row, then records the page does not know
    <<Item("tool", <<"s">>), Item("tool", <<"b">>), Item("other", <<"a">>),
      Item("none", <<"b">>), Item("text", <<"a">>)>>,
    \* fragments without the prefix before and between the records
    <<Item("comment", <<"a">>), Item("text", <<"a">>), Item("raw", <<"s">>),
      Item("named", <<"b">>), Item("tool", <<"s">>)>>,
    \* contents with a character of two bytes
    <<Item("text", <<"U+E9">>), Item("tool", <<"a", "U+E9">>)>> >>

\* every script
AllScripts == 1..Len(ScriptList)

\* a text of one-byte characters
IsAscii(text) == \A k \in 1..Len(text) : text[k] \in AsciiChars

\* the scripts made of the records of POST /chat alone: tool, text, and
\* records cut short, with contents of one-byte characters
Scripts ==
    {k \in AllScripts :
        \A j \in 1..Len(ScriptList[k]) :
            /\ ScriptList[k][j].type \in {"tool", "text", "bad"}
            /\ IsAscii(ScriptList[k][j].content)}

\* the scripts with contents of more than one byte per character
ByteScripts ==
    {k \in AllScripts :
        \E j \in 1..Len(ScriptList[k]) : ~IsAscii(ScriptList[k][j].content)}

\* the offsets of the body at which a record ends
RECURSIVE Boundaries(_, _)
Boundaries(script, from) ==
    IF script = E THEN {}
    ELSE LET e == from + Len(Encode(Head(script)))
         IN  {e} \cup Boundaries(Tail(script), e)

(***************************************************************************)
(* The read loop of handleSendMessage.                                     *)
(***************************************************************************)
\* the part of the state one chunk's processing touches
\* (thrown: an exception has left the `for` loop for the outer `catch`)
Loop(acc, sm, lta, msgs, evs, last) ==
    [accumulatedText |-> acc, streamingMessage |-> sm, liveToolActivity |-> lta,
     messages |-> msgs, events |-> evs, lastEvent |-> last, thrown |-> FALSE]

\* variant: a text event is appended to the text so far
ApplyEvent_Concat(l, data) ==
    IF data.type = "tool"
    THEN [l EXCEPT !.liveToolActivity = data.content,
                   !.events = Append(@, Item("tool", data.content)),
                   !.lastEvent = "tool"]
    ELSE IF data.type = "text"
    THEN [l EXCEPT !.accumulatedText = @ \o data.content,
                   !.liveToolActivity = E,
                   !.streamingMessage = l.accumulatedText \o data.content,
                   !.events = Append(@, Item("text", data.content)),
                   !.lastEvent = "text"]
    ELSE l

\* variant: a tool event is logged as a message of the transcript
ApplyEvent_ToolMessage(l, data) ==
    IF data.type = "tool"
    THEN [l EXCEPT !.liveToolActivity = data.content,
                   !.messages = Append(@, Message("tool", data.content)),
                   !.events = Append(@, Item("tool", data.content)),
                   !.lastEvent = "tool"]
    ELSE IF data.type = "text"
    THEN [l EXCEPT !.accumulatedText = data.content,
                   !.liveToolActivity = E,
                   !.streamingMessage = data.content,
                   !.events = Append(@, Item("text", data.content)),
                   !.lastEvent = "text"]
    ELSE l

\* variant: a tool event starts the streaming text afresh
ApplyEvent_ToolResets(l, data) ==
    IF data.type = "tool"
    THEN [l EXCEPT !.liveToolActivity = data.content,
                   !.streamingMessage = E,
                   !.events = Append(@, Item("tool", data.content)),
                   !.lastEvent = "tool"]
    ELSE IF data.type = "text"
    THEN [l EXCEPT !.accumulatedText = data.content,
                   !.liveToolActivity = E,
                   !.streamingMessage = data.content,
                   !.events = Append(@, Item("text", data.content)),
                   !.lastEvent = "text"]
    ELSE l

\* variant: every record that is not a tool event is taken for text
ApplyEvent_ElseText(l, data) ==
    IF data.type = "tool"
    THEN [l EXCEPT !.liveToolActivity = data.content,
                   !.events = Append(@, Item("tool", data.content)),
                   !.lastEvent = "tool"]
    ELSE [l EXCEPT !.accumulatedText = data.content,
                   !.liveToolActivity = E,
                   !.streamingMessage = data.content,
                   !.events = Append(@, Item("text", data.content)),
                   !.lastEvent = "text"]

\* variant: a text event leaves the tool badge as it is
ApplyEvent_KeepTool(l, data) ==
    IF data.type = "tool"
    THEN [l EXCEPT !.liveToolActivity = data.content,
                   !.events = Append(@, Item("tool", data.content)),
                   !.lastEvent = "tool"]
    ELSE IF data.type = "text"
    THEN [l EXCEPT !.accumulatedText = data.content,
                   !.streamingMessage = data.content,
                   !.events = Append(@, Item("text", data.content)),
                   !.lastEvent = "text"]
    ELSE l

\* the dispatch on data.type
ApplyEvent(l, data) ==
    IF data.type = "tool"
    THEN [l EXCEPT !.liveToolActivity = data.content,
                   !.events = Append(@, Item("tool", data.content)),
                   !.lastEvent = "tool"]
    ELSE IF data.type = "text"
    THEN [l EXCEPT !.accumulatedText = data.content,
                   !.liveToolActivity = E,
                   !.streamingMessage = data.content,
                   !.events = Append(@, Item("text", data.content)),
                   !.lastEvent = "text"]
    ELSE l

\* variant: JSON.parse without the inner try/catch
ProcessLine_NoCatch(l, line) ==
    IF StartsWithData(line)
    THEN LET data == JSONParse(StripData(line))
         IN  IF data.ok THEN ApplyEvent(l, data) ELSE [l EXCEPT !.thrown = TRUE]
    ELSE l

\* one iteration of `for (const line of lines)`: prefix test, try/catch
ProcessLine(l, line) ==
    IF StartsWithData(line)
    THEN LET data == JSONParse(StripData(line))
         IN  IF data.ok THEN ApplyEvent(l, data) ELSE l
    ELSE l

RECURSIVE ProcessLines(_, _)
ProcessLines(l, lines) ==
    IF lines = E \/ l.thrown THEN l
    ELSE ProcessLines(ProcessLine(l, Head(lines)), Tail(lines))

\* decode, split and interpret one chunk
ProcessChunk(l, chunk) == ProcessLines(l, Split(chunk))

(***************************************************************************)
(* The health check.                                                       *)
(***************************************************************************)
EndpointResult(label, ok) == [label |-> label, ok |-> ok]

NotOk(r) == ~r.ok

\* variant: the GET of an endpoint is not wrapped in try/catch, so a GET
\* that throws rejects the whole check
checkHealth_NoCatch(res) ==
    LET results == [k \in 1..Len(HEALTH_ENDPOINTS) |->
                       EndpointResult(HEALTH_ENDPOINTS[k], res[k] = "ok")]
        failed   == SelectSeq(results, NotOk)
        failures == [k \in 1..Len(failed) |-> failed[k].label]
    IN  [status |-> IF Len(failures) = 0 THEN "online" ELSE "offline",
         failures |-> failures,
         rejected |-> \E k \in 1..Len(res) : res[k] = "throw"]

\* checkHealth(), given how the GET of each endpoint ends: one result per
\* endpoint (a GET that throws counts as not ok), the labels of the results
\* that are not ok, and the status; the promise is never rejected
checkHealth(res) ==
    LET results == [k \in 1..Len(HEALTH_ENDPOINTS) |->
                       EndpointResult(HEALTH_ENDPOINTS[k], res[k] = "ok")]
        failed   == SelectSeq(results, NotOk)
        failures == [k \in 1..Len(failed) |-> failed[k].label]
    IN  [status |-> IF Len(failures) = 0 THEN "online" ELSE "offline",
         failures |-> failures,
         rejected |-> FALSE]

(***************************************************************************)
(* State.                                                                  *)
(*   streams         one record per handleSendMessage call                 *)
(*   historyFetches  number of GET /history/{s} requests in flight, per s  *)
(*                   (pending: the bytes its decoder holds back; decoded:  *)
(*                   the text its decoder has given out so far;            *)
(*                   splitReads: its reads that ended inside a code point) *)
(*   lastEvent       what wrote the two buffers last: a "tool" or "text"   *)
(*                   event, the "end" of a stream, or "none" so far       *)
(*   healthChecks    number of runHealthCheck calls in flight              *)
(*   healthResults   the outcomes of the health check that resolved last   *)
(*   sessionFetches  number of GET /sessions requests in flight            *)
(*   backend         the session list the backend holds                    *)
(*   edits           one record per handleRename / handleDelete call       *)
(***************************************************************************)
Open(i) == streams[i].phase \in {"fetching", "reading"}

OpenStreams == {i \in 1..Len(streams) : Open(i)}

PendingFetches == {s \in DOMAIN historyFetches : historyFetches[s] > 0}

Init ==
    /\ messages = E
    /\ input = E
    /\ streamingMessage = E
    /\ liveToolActivity = E
    /\ skipHistoryLoad = FALSE
    /\ streams = E
    /\ uuidCount = 0
    /\ navCount = 0
    /\ lastEvent = "none"
    \* the page is opened on the welcome screen or on /?session=s; in the
    \* second case the mount effects have started loadHistory
    /\ sessionIdFromUrl \in Sessions \cup {""}
    /\ currentSessionId = sessionIdFromUrl
    /\ isLoading = (sessionIdFromUrl # "")
    /\ historyFetches = [s \in Sessions |-> IF s = sessionIdFromUrl THEN 1 ELSE 0]
    \* the Sidebar's mount effects have started one health check and one
    \* fetchSessions
    /\ systemStatus = "checking"
    /\ systemFailures = E
    /\ prevStatusRef = "checking"
    /\ healthChecks = 1
    /\ healthResults = E
    \* the mount effect has its listeners in place and no timeout scheduled
    /\ debounceTimer = FALSE
    /\ timers = 0
    /\ mounted = TRUE
    /\ sessions = E
    /\ isLoadingSessions = TRUE
    /\ sessionFetches = 1
    /\ backend = SessionList0
    /\ edits = E

\* fetchSessions up to `await fetch`
FetchSessions ==
    /\ isLoadingSessions' = TRUE
    /\ sessionFetches' = sessionFetches + 1

\* every open response cycle has seen another operation of the page
Disturbed(ss) == [i \in 1..Len(ss) |-> [ss[i] EXCEPT !.alone = FALSE]]

\* a call that has returned: only how it ended is remembered
Closed(st, phase) ==
    [st EXCEPT !.phase = phase, !.session = "", !.script = 0, !.pos = 0,
               !.accumulatedText = E, !.events = E, !.base = E,
               !.alone = FALSE, !.pending = E, !.decoded = E,
               !.splitReads = 0]

\* systemStatus === "offline"
isOffline == systemStatus = "offline"

\* onChange of the input field (disabled while isLoading or offline)
TypeInput(v) ==
    /\ ~isLoading
    /\ ~isOffline
    /\ v # input
    /\ input' = v
    /\ UNCHANGED <<messages, isLoading, currentSessionId, sessionIdFromUrl,
                   streamingMessage, liveToolActivity, skipHistoryLoad,
                   streams, historyFetches, uuidCount, navCount, lastEvent>>
    /\ UNCHANGED <<statusVars, listVars>>

\* variant: the input bar is disabled by isLoading alone
Submit_NoOfflineCheck ==
    /\ Trim(input) # E
    /\ ~isLoading
    /\ Len(streams) < MaxCycles
    /\ LET fresh    == currentSessionId = ""
           targetId == IF fresh THEN uuidv4(uuidCount) ELSE currentSessionId
           userMessage == Trim(input)
           msgs     == Append(messages, Message("human", userMessage))
       IN  /\ currentSessionId' = targetId
           /\ sessionIdFromUrl' = IF fresh THEN targetId ELSE sessionIdFromUrl
           /\ uuidCount' = IF fresh THEN uuidCount + 1 ELSE uuidCount
           /\ skipHistoryLoad' = FALSE
           /\ input' = E
           /\ isLoading' = TRUE
           /\ messages' = msgs
           /\ streams' = Append(Disturbed(streams),
                  [session |-> targetId, phase |-> "fetching", script |-> 0,
                   pos |-> 0, accumulatedText |-> E, events |-> E,
                   pending |-> E, decoded |-> E, splitReads |-> 0,
                   base |-> msgs,
                   alone |-> OpenStreams = {} /\ PendingFetches = {}])
           /\ IF fresh THEN FetchSessions
              ELSE UNCHANGED <<isLoadingSessions, sessionFetches>>
    /\ UNCHANGED <<streamingMessage, liveToolActivity, historyFetches,
                   navCount, lastEvent>>
    /\ UNCHANGED <<statusVars, sessions, backend, edits>>

\* handleSendMessage up to `await fetch` (Enter and the send button are
\* disabled while isLoading or offline), and the effects of the render it
\* causes: for a new session loadHistory runs once and consumes the skip
\* flag, and the Sidebar sees the new URL and fetches the session list
Submit ==
    /\ Trim(input) # E
    /\ ~isLoading
    /\ ~isOffline
    /\ Len(streams) < MaxCycles
    /\ LET fresh    == currentSessionId = ""
           targetId == IF fresh THEN uuidv4(uuidCount) ELSE currentSessionId
           userMessage == Trim(input)
           msgs     == Append(messages, Message("human", userMessage))
       IN  /\ currentSessionId' = targetId
           /\ sessionIdFromUrl' = IF fresh THEN targetId ELSE sessionIdFromUrl
           /\ uuidCount' = IF fresh THEN uuidCount + 1 ELSE uuidCount
           /\ skipHistoryLoad' = FALSE
           /\ input' = E
           /\ isLoading' = TRUE
           /\ messages' = msgs
           /\ streams' = Append(Disturbed(streams),
                  [session |-> targetId, phase |-> "fetching", script |-> 0,
                   pos |-> 0, accumulatedText |-> E, events |-> E,
                   pending |-> E, decoded |-> E, splitReads |-> 0,
                   base |-> msgs,
                   alone |-> OpenStreams = {} /\ PendingFetches = {}])
           /\ IF fresh THEN FetchSessions
              ELSE UNCHANGED <<isLoadingSessions, sessionFetches>>
    /\ UNCHANGED <<streamingMessage, liveToolActivity, historyFetches,
                   navCount, lastEvent>>
    /\ UNCHANGED <<statusVars, sessions, backend, edits>>

\* `await fetch` of POST /chat resolves with a body
ChatResponse(i, sc) ==
    /\ i \in 1..Len(streams)
    /\ streams[i].phase = "fetching"
    /\ streams' = [streams EXCEPT ![i].phase = "reading", ![i].script = sc]
    /\ UNCHANGED <<messages, input, isLoading, currentSessionId,
                   sessionIdFromUrl, streamingMessage, liveToolActivity,
                   skipHistoryLoad, historyFetches, uuidCount, navCount,
                   lastEvent>>
    /\ UNCHANGED <<statusVars, listVars>>

\* `await reader.read()` resolves with the bytes of the body from pos to `to`
Read(i, to) ==
    /\ i \in 1..Len(streams)
    /\ streams[i].phase = "reading"
    /\ LET st    == streams[i]
           wire  == WireOf(ScriptList[st.script])
       IN  /\ st.pos < to
           /\ to <= Len(wire)
           /\ LET d == Decode(st.pending, SubSeq(wire, st.pos + 1, to))
                  l == ProcessChunk(
                          Loop(st.accumulatedText, streamingMessage,
                               liveToolActivity, messages, st.events, lastEvent),
                          d.text)
              IN  /\ streams' =
                         IF l.thrown
                         THEN [streams EXCEPT ![i] = Closed(@, "thrown")]
                         ELSE [streams EXCEPT
                                 ![i].pos = to,
                                 ![i].accumulatedText = l.accumulatedText,
                                 ![i].events = l.events,
                                 ![i].pending = d.pending,
                                 ![i].decoded = @ \o d.text,
                                 ![i].splitReads =
                                     IF d.pending = E THEN @ ELSE @ + 1]
                  /\ isLoading' = IF l.thrown THEN FALSE ELSE isLoading
                  /\ streamingMessage' = l.streamingMessage
                  /\ liveToolActivity' = l.liveToolActivity
                  /\ messages' = l.messages
                  /\ lastEvent' = l.lastEvent
    /\ UNCHANGED <<input, currentSessionId, sessionIdFromUrl, skipHistoryLoad,
                   historyFetches, uuidCount, navCount>>
    /\ UNCHANGED <<statusVars, listVars>>

\* a read that delivers one or more whole records
ReadChunk(i) ==
    /\ i \in 1..Len(streams)
    /\ streams[i].phase = "reading"
    /\ \E to \in Boundaries(ScriptList[streams[i].script], 0) : Read(i, to)

\* a read that ends at any byte of the body
ReadAny(i) ==
    /\ i \in 1..Len(streams)
    /\ streams[i].phase = "reading"
    /\ \E to \in 1..Len(WireOf(ScriptList[streams[i].script])) : Read(i, to)

\* variant: the commit leaves the two buffers as they are
StreamEnd_NoClear(i) ==
    /\ i \in 1..Len(streams)
    /\ streams[i].phase = "reading"
    /\ streams[i].pos = Len(WireOf(ScriptList[streams[i].script]))
    /\ messages' = Append(messages, Message("ai", streams[i].accumulatedText))
    /\ isLoading' = FALSE
    /\ streams' = [streams EXCEPT ![i] = Closed(@, "done")]
    /\ lastEvent' = "end"
    /\ UNCHANGED <<input, currentSessionId, sessionIdFromUrl, skipHistoryLoad,
                   historyFetches, uuidCount, navCount, streamingMessage,
                   liveToolActivity>>
    /\ FetchSessions
    /\ UNCHANGED <<statusVars, sessions, backend, edits>>

\* variant: the commit writes [...messages, ai] with the `messages` of the
\* render in which handleSendMessage was called
StreamEnd_StaleClosure(i) ==
    /\ i \in 1..Len(streams)
    /\ streams[i].phase = "reading"
    /\ streams[i].pos = Len(WireOf(ScriptList[streams[i].script]))
    /\ messages' = Append(SubSeq(streams[i].base, 1, Len(streams[i].base) - 1),
                          Message("ai", streams[i].accumulatedText))
    /\ streamingMessage' = E
    /\ liveToolActivity' = E
    /\ isLoading' = FALSE
    /\ streams' = [streams EXCEPT ![i] = Closed(@, "done")]
    /\ lastEvent' = "end"
    /\ UNCHANGED <<input, currentSessionId, sessionIdFromUrl, skipHistoryLoad,
                   historyFetches, uuidCount, navCount>>
    /\ FetchSessions
    /\ UNCHANGED <<statusVars, sessions, backend, edits>>

\* reader.read() answers done: commit, clear, notify (the Sidebar's
\* listener of session-updated calls fetchSessions); then `finally`
StreamEnd(i) ==
    /\ i \in 1..Len(streams)
    /\ streams[i].phase = "reading"
    /\ streams[i].pos = Len(WireOf(ScriptList[streams[i].script]))
    /\ messages' = Append(messages, Message("ai", streams[i].accumulatedText))
    /\ streamingMessage' = E
    /\ liveToolActivity' = E
    /\ isLoading' = FALSE
    /\ streams' = [streams EXCEPT ![i] = Closed(@, "done")]
    /\ lastEvent' = "end"
    /\ UNCHANGED <<input, currentSessionId, sessionIdFromUrl, skipHistoryLoad,
                   historyFetches, uuidCount, navCount>>
    /\ FetchSessions
    /\ UNCHANGED <<statusVars, sessions, backend, edits>>

\* the response has no body: `return`, then `finally`
ChatNoBody(i) ==
    /\ i \in 1..Len(streams)
    /\ streams[i].phase = "fetching"
    /\ isLoading' = FALSE
    /\ streams' = [streams EXCEPT ![i] = Closed(@, "nobody")]
    /\ UNCHANGED <<messages, input, currentSessionId, sessionIdFromUrl,
                   streamingMessage, liveToolActivity, skipHistoryLoad,
                   historyFetches, uuidCount, navCount, lastEvent>>
    /\ UNCHANGED <<statusVars, listVars>>

\* variant: a failed request is sent again
ChatFail_Retry(i) ==
    /\ i \in 1..Len(streams)
    /\ Open(i)
    /\ streams' = [streams EXCEPT ![i].phase = "fetching", ![i].script = 0,
                                  ![i].pos = 0, ![i].accumulatedText = E,
                                  ![i].events = E, ![i].pending = E,
                                  ![i].decoded = E, ![i].splitReads = 0]
    /\ UNCHANGED <<messages, input, isLoading, currentSessionId,
                   sessionIdFromUrl, streamingMessage, liveToolActivity,
                   skipHistoryLoad, historyFetches, uuidCount, navCount,
                   lastEvent>>
    /\ UNCHANGED <<statusVars, listVars>>

\* variant: session-updated is dispatched in `finally`
ChatFail_Notify(i) ==
    /\ i \in 1..Len(streams)
    /\ Open(i)
    /\ isLoading' = FALSE
    /\ streams' = [streams EXCEPT ![i] = Closed(@, "failed")]
    /\ UNCHANGED <<messages, input, currentSessionId, sessionIdFromUrl,
                   streamingMessage, liveToolActivity, skipHistoryLoad,
                   historyFetches, uuidCount, navCount, lastEvent>>
    /\ FetchSessions
    /\ UNCHANGED <<statusVars, sessions, backend, edits>>

\* fetch or reader.read() rejects: `catch`, then `finally`
ChatFail(i) ==
    /\ i \in 1..Len(streams)
    /\ Open(i)
    /\ isLoading' = FALSE
    /\ streams' = [streams EXCEPT ![i] = Closed(@, "failed")]
    /\ UNCHANGED <<messages, input, currentSessionId, sessionIdFromUrl,
                   streamingMessage, liveToolActivity, skipHistoryLoad,
                   historyFetches, uuidCount, navCount, lastEvent>>
    /\ UNCHANGED <<statusVars, listVars>>

\* the URL changes to /?session=s or to / (s = ""): the session effect, and
\* for a session the start of loadHistory up to `await fetch`
UrlChange(s) ==
    /\ navCount < MaxNav
    /\ s # sessionIdFromUrl
    /\ navCount' = navCount + 1
    /\ sessionIdFromUrl' = s
    /\ currentSessionId' = s
    /\ streams' = Disturbed(streams)
    /\ IF s = ""
       THEN /\ messages' = E
            /\ UNCHANGED <<isLoading, skipHistoryLoad, historyFetches>>
       ELSE IF skipHistoryLoad
       THEN /\ skipHistoryLoad' = FALSE
            /\ UNCHANGED <<messages, isLoading, historyFetches>>
       ELSE /\ messages' = E
            /\ isLoading' = TRUE
            /\ historyFetches' = [historyFetches EXCEPT ![s] = @ + 1]
            /\ UNCHANGED skipHistoryLoad
    /\ UNCHANGED <<input, streamingMessage, liveToolActivity, uuidCount,
                   lastEvent>>

\* a navigation by any means (link, New Chat, address bar, back): the page's
\* part, and the Sidebar's effect on currentSessionId, which calls
\* fetchSessions
Navigate(s) ==
    /\ UrlChange(s)
    /\ FetchSessions
    /\ UNCHANGED <<statusVars, sessions, backend, edits>>

\* GET /history/{s} answers 2xx: the rest of `try`, then `finally`
HistoryOk(s) ==
    /\ historyFetches[s] > 0
    /\ historyFetches' = [historyFetches EXCEPT ![s] = @ - 1]
    /\ messages' = HistoryOf(s)
    /\ isLoading' = FALSE
    /\ UNCHANGED <<input, currentSessionId, sessionIdFromUrl, streamingMessage,
                   liveToolActivity, skipHistoryLoad, streams, uuidCount,
                   navCount, lastEvent>>
    /\ UNCHANGED <<statusVars, listVars>>

\* GET /history/{s} rejects or answers non-2xx: `catch`, then `finally`
HistoryFail(s) ==
    /\ historyFetches[s] > 0
    /\ historyFetches' = [historyFetches EXCEPT ![s] = @ - 1]
    /\ isLoading' = FALSE
    /\ UNCHANGED <<messages, input, currentSessionId, sessionIdFromUrl,
                   streamingMessage, liveToolActivity, skipHistoryLoad, streams,
                   uuidCount, navCount, lastEvent>>
    /\ UNCHANGED <<statusVars, listVars>>

(***************************************************************************)
(* The Sidebar.                                                            *)
(***************************************************************************)
\* the session rows are rendered with their link and buttons
RowsShown == ~isLoadingSessions /\ ~isOffline

Listed(list, id) == \E k \in 1..Len(list) : list[k].id = id

\* a click on the link of session s in the list
ClickSession(s) ==
    /\ RowsShown
    /\ Listed(sessions, s)
    /\ Navigate(s)

\* startNewChat: router.push("/")
StartNewChat == Navigate("")

\* runHealthCheck up to `await checkHealth()`
StartHealthCheck ==
    /\ healthChecks < MaxInFlight
    /\ healthChecks' = healthChecks + 1

\* the tab becomes visible again: handleVisibility calls runHealthCheck
Visible ==
    /\ mounted
    /\ StartHealthCheck
    /\ UNCHANGED <<systemStatus, systemFailures, prevStatusRef, healthResults,
                   debounceTimer, timers, mounted>>
    /\ UNCHANGED <<pageVars, listVars>>

\* variant: every click schedules a timeout
Click_NoGuard ==
    /\ mounted
    /\ debounceTimer' = TRUE
    /\ timers' = timers + 1
    /\ UNCHANGED <<systemStatus, systemFailures, prevStatusRef, healthChecks,
                   healthResults, mounted>>
    /\ UNCHANGED <<pageVars, listVars>>

\* a click anywhere in the document: handleUserActivity schedules the
\* timeout unless one is scheduled
Click ==
    /\ mounted
    /\ IF debounceTimer
       THEN UNCHANGED <<debounceTimer, timers>>
       ELSE /\ debounceTimer' = TRUE
            /\ timers' = timers + 1
    /\ UNCHANGED <<systemStatus, systemFailures, prevStatusRef, healthChecks,
                   healthResults, mounted>>
    /\ UNCHANGED <<pageVars, listVars>>

\* a scheduled timeout fires: runHealthCheck(); debounceTimer = null
TimerFire ==
    /\ timers > 0
    /\ timers' = timers - 1
    /\ debounceTimer' = FALSE
    /\ StartHealthCheck
    /\ UNCHANGED <<systemStatus, systemFailures, prevStatusRef, healthResults,
                   mounted>>
    /\ UNCHANGED <<pageVars, listVars>>

\* the layout is left: the cleanup of the mount effect removes the
\* listeners and clears the scheduled timeout
Unmount ==
    /\ mounted
    /\ mounted' = FALSE
    /\ debounceTimer' = FALSE
    /\ timers' = IF debounceTimer THEN timers - 1 ELSE timers
    /\ UNCHANGED <<systemStatus, systemFailures, prevStatusRef, healthChecks,
                   healthResults>>
    /\ UNCHANGED <<pageVars, listVars>>

\* variant: runHealthCheck sets the status and leaves systemFailures
HealthResult_KeepFailures(res) ==
    /\ healthChecks > 0
    /\ healthChecks' = healthChecks - 1
    /\ healthResults' = res
    /\ LET h == checkHealth(res)
       IN  IF h.rejected
           THEN UNCHANGED <<systemStatus, systemFailures, prevStatusRef,
                            isLoadingSessions, sessionFetches>>
           ELSE /\ systemStatus' = h.status
                /\ UNCHANGED systemFailures
                /\ prevStatusRef' = h.status
                /\ IF h.status = "online" /\ prevStatusRef # "online"
                   THEN sessionFetches < MaxInFlight /\ FetchSessions
                   ELSE UNCHANGED <<isLoadingSessions, sessionFetches>>
    /\ UNCHANGED <<debounceTimer, timers, mounted>>
    /\ UNCHANGED <<pageVars, sessions, backend, edits>>

\* variant: the recovery test reads the systemStatus of the render in which
\* runHealthCheck was created, which is "checking"
HealthResult_StaleStatus(res) ==
    /\ healthChecks > 0
    /\ healthChecks' = healthChecks - 1
    /\ healthResults' = res
    /\ LET h == checkHealth(res)
       IN  IF h.rejected
           THEN UNCHANGED <<systemStatus, systemFailures, prevStatusRef,
                            isLoadingSessions, sessionFetches>>
           ELSE /\ systemStatus' = h.status
                /\ systemFailures' = h.failures
                /\ prevStatusRef' = h.status
                /\ IF h.status = "online" /\ "checking" # "online"
                   THEN sessionFetches < MaxInFlight /\ FetchSessions
                   ELSE UNCHANGED <<isLoadingSessions, sessionFetches>>
    /\ UNCHANGED <<debounceTimer, timers, mounted>>
    /\ UNCHANGED <<pageVars, sessions, backend, edits>>

\* `await checkHealth()` resolves, the GETs having ended as res: the rest of
\* runHealthCheck
HealthResult(res) ==
    /\ healthChecks > 0
    /\ healthChecks' = healthChecks - 1
    /\ healthResults' = res
    /\ LET h == checkHealth(res)
       IN  IF h.rejected
           THEN UNCHANGED <<systemStatus, systemFailures, prevStatusRef,
                            isLoadingSessions, sessionFetches>>
           ELSE /\ systemStatus' = h.status
                /\ systemFailures' = h.failures
                /\ prevStatusRef' = h.status
                /\ IF h.status = "online" /\ prevStatusRef # "online"
                   THEN sessionFetches < MaxInFlight /\ FetchSessions
                   ELSE UNCHANGED <<isLoadingSessions, sessionFetches>>
    /\ UNCHANGED <<debounceTimer, timers, mounted>>
    /\ UNCHANGED <<pageVars, sessions, backend, edits>>

\* GET /sessions answers 2xx: setSessions(data), then `finally`
SessionsOk ==
    /\ sessionFetches > 0
    /\ sessionFetches' = sessionFetches - 1
    /\ sessions' = backend
    /\ isLoadingSessions' = FALSE
    /\ UNCHANGED <<pageVars, statusVars, backend, edits>>

\* variant: a failed fetch empties the list
SessionsFail_Empty ==
    /\ sessionFetches > 0
    /\ sessionFetches' = sessionFetches - 1
    /\ sessions' = E
    /\ isLoadingSessions' = FALSE
    /\ UNCHANGED <<pageVars, statusVars, backend, edits>>

\* GET /sessions rejects or answers non-2xx: `catch` or nothing, then
\* `finally`
SessionsFail ==
    /\ sessionFetches > 0
    /\ sessionFetches' = sessionFetches - 1
    /\ isLoadingSessions' = FALSE
    /\ UNCHANGED <<pageVars, statusVars, sessions, backend, edits>>

\* prev.map((s) => s.id === id ? { ...s, title: newTitle } : s)
Renamed(list, id, newTitle) ==
    [k \in 1..Len(list) |->
        IF list[k].id = id THEN Session(id, newTitle) ELSE list[k]]

\* prev.filter((s) => s.id !== id)
Removed(list, id) ==
    LET Keep(x) == x.id # id
    IN  SelectSeq(list, Keep)

Edit(op, id, title) == [op |-> op, id |-> id, title |-> title, phase |-> "sent"]

\* a call that has returned: only how it ended is remembered
ClosedEdit(e, phase) == [e EXCEPT !.phase = phase, !.op = "", !.id = "", !.title = ""]

\* commitRename and handleRename up to `await fetch`: the optimistic update
Rename(id, newTitle) ==
    /\ RowsShown
    /\ Len(edits) < MaxEdits
    /\ \E k \in 1..Len(sessions) :
          sessions[k].id = id /\ sessions[k].title # newTitle
    /\ sessions' = Renamed(sessions, id, newTitle)
    /\ edits' = Append(edits, Edit("rename", id, newTitle))
    /\ UNCHANGED <<pageVars, statusVars, isLoadingSessions, sessionFetches,
                   backend>>

\* variant: the active session is deleted without router.push("/")
Delete_NoPush(id) ==
    /\ RowsShown
    /\ Len(edits) < MaxEdits
    /\ Listed(sessions, id)
    /\ sessions' = Removed(sessions, id)
    /\ edits' = Append(edits, Edit("delete", id, ""))
    /\ UNCHANGED <<pageVars, isLoadingSessions, sessionFetches>>
    /\ UNCHANGED <<statusVars, backend>>

\* handleDelete up to `await fetch`: the optimistic removal, and for the
\* active session router.push("/")
Delete(id) ==
    /\ RowsShown
    /\ Len(edits) < MaxEdits
    /\ Listed(sessions, id)
    /\ sessions' = Removed(sessions, id)
    /\ edits' = Append(edits, Edit("delete", id, ""))
    /\ IF sessionIdFromUrl = id
       THEN UrlChange("") /\ FetchSessions
       ELSE UNCHANGED <<pageVars, isLoadingSessions, sessionFetches>>
    /\ UNCHANGED <<statusVars, backend>>

\* PATCH or DELETE /sessions/{id} answers 2xx: the backend has done it
EditOk(k) ==
    /\ k \in 1..Len(edits)
    /\ edits[k].phase = "sent"
    /\ Listed(backend, edits[k].id)
    /\ backend' = IF edits[k].op = "rename"
                  THEN Renamed(backend, edits[k].id, edits[k].title)
                  ELSE Removed(backend, edits[k].id)
    /\ edits' = [edits EXCEPT ![k] = ClosedEdit(@, "ok")]
    /\ UNCHANGED <<pageVars, statusVars, sessions, isLoadingSessions,
                   sessionFetches>>

\* PATCH or DELETE answers non-2xx: `await fetch` resolves, nothing follows
EditNon2xx(k) ==
    /\ k \in 1..Len(edits)
    /\ edits[k].phase = "sent"
    /\ edits' = [edits EXCEPT ![k] = ClosedEdit(@, "non2xx")]
    /\ UNCHANGED <<pageVars, statusVars, sessions, isLoadingSessions,
                   sessionFetches, backend>>

\* PATCH or DELETE rejects (network error): `catch` calls fetchSessions
EditThrow(k) ==
    /\ k \in 1..Len(edits)
    /\ edits[k].phase = "sent"
    /\ edits' = [edits EXCEPT ![k] = ClosedEdit(@, "threw")]
    /\ FetchSessions
    /\ UNCHANGED <<pageVars, statusVars, sessions, backend>>

StreamIds == 1..MaxCycles

Next ==
    \/ \E v \in Inputs : TypeInput(v)
    \/ Submit
    \/ \E i \in StreamIds, sc \in Scripts : ChatResponse(i, sc)
    \/ \E i \in StreamIds : ReadChunk(i)
    \/ \E i \in StreamIds : StreamEnd(i)
    \/ \E i \in StreamIds : ChatNoBody(i)
    \/ \E i \in StreamIds : ChatFail(i)
    \/ \E s \in Sessions \cup {""} : Navigate(s)
    \/ \E s \in Sessions : HistoryOk(s)
    \/ \E s \in Sessions : HistoryFail(s)

Spec == Init /\ [][Next]_vars

\* the same page with a body that the network cuts at any byte
InitWire == Init /\ sessionIdFromUrl = ""

NextWire ==
    \/ \E v \in Inputs : TypeInput(v)
    \/ Submit
    \/ \E i \in StreamIds, sc \in Scripts : ChatResponse(i, sc)
    \/ \E i \in StreamIds : ReadAny(i)
    \/ \E i \in StreamIds : StreamEnd(i)

SpecWire == InitWire /\ [][NextWire]_vars

\* the same page with bodies that carry foreign records and fragments
NextFrames ==
    \/ \E v \in Inputs : TypeInput(v)
    \/ Submit
    \/ \E i \in StreamIds, sc \in AllScripts : ChatResponse(i, sc)
    \/ \E i \in StreamIds : ReadChunk(i)
    \/ \E i \in StreamIds : StreamEnd(i)

SpecFrames == InitWire /\ [][NextFrames]_vars

\* the same page with bodies of multi-byte characters, cut at any byte
NextBytes ==
    \/ \E v \in Inputs : TypeInput(v)
    \/ Submit
    \/ \E i \in StreamIds, sc \in ByteScripts : ChatResponse(i, sc)
    \/ \E i \in StreamIds : ReadAny(i)
    \/ \E i \in StreamIds : StreamEnd(i)

SpecBytes == InitWire /\ [][NextBytes]_vars

\* the page under the health check: sends and links against systemStatus
NextStatus ==
    \/ \E v \in Inputs : TypeInput(v)
    \/ Submit
    \/ \E i \in StreamIds : ChatFail(i)
    \/ \E s \in Sessions : ClickSession(s)
    \/ StartNewChat
    \/ \E s \in Sessions : HistoryOk(s)
    \/ \E s \in Sessions : HistoryFail(s)
    \/ Visible
    \/ \E res \in HealthOutcomes : HealthResult(res)
    \/ SessionsOk
    \/ SessionsFail

SpecStatus == Init /\ [][NextStatus]_vars

\* the session list and its edits
EditIds == 1..MaxEdits

NextSessions ==
    \/ \E s \in Sessions : HistoryOk(s)
    \/ SessionsOk
    \/ SessionsFail
    \/ \E id \in {"A", "B"}, t \in Titles : Rename(id, t)
    \/ \E id \in {"A", "B"} : Delete(id)
    \/ \E k \in EditIds : EditOk(k)
    \/ \E k \in EditIds : EditNon2xx(k)
    \/ \E k \in EditIds : EditThrow(k)

SpecSessions == Init /\ [][NextSessions]_vars

\* the page back on the welcome screen while the history of session A is
\* still being fetched: opened on the welcome screen, a first message was
\* sent (new session id), the user switched to session A, the request came
\* back without a body, and the user pressed New Chat
InitReturn ==
    /\ messages = E
    /\ input = E
    /\ streamingMessage = E
    /\ liveToolActivity = E
    /\ skipHistoryLoad = FALSE
    /\ streams = <<Closed([session |-> "", phase |-> "fetching", script |-> 0,
                           pos |-> 0, accumulatedText |-> E, events |-> E,
                           pending |-> E, decoded |-> E, splitReads |-> 0,
                           base |-> E, alone |-> FALSE], "nobody")>>
    /\ uuidCount = 1
    /\ navCount = 2
    /\ lastEvent = "none"
    /\ sessionIdFromUrl = ""
    /\ currentSessionId = ""
    /\ isLoading = FALSE
    /\ historyFetches = [s \in Sessions |-> IF s = "A" THEN 1 ELSE 0]
    /\ systemStatus = "checking"
    /\ systemFailures = E
    /\ prevStatusRef = "checking"
    /\ healthChecks = 1
    /\ healthResults = E
    /\ debounceTimer = FALSE
    /\ timers = 0
    /\ mounted = TRUE
    /\ sessions = E
    /\ isLoadingSessions = TRUE
    /\ sessionFetches = 4
    /\ backend = SessionList0
    /\ edits = E

NextReturn ==
    \/ \E v \in Inputs : TypeInput(v)
    \/ Submit
    \/ \E i \in StreamIds, sc \in Scripts : ChatResponse(i, sc)
    \/ \E i \in StreamIds : ReadChunk(i)
    \/ \E i \in StreamIds : StreamEnd(i)
    \/ \E i \in StreamIds : ChatFail(i)
    \/ \E s \in Sessions : HistoryOk(s)
    \/ \E s \in Sessions : HistoryFail(s)

SpecReturn == InitReturn /\ [][NextReturn]_vars

\* the health check and what starts it: mount, click, timeout, visibility
NextTimer ==
    \/ Click
    \/ TimerFire
    \/ Visible
    \/ Unmount
    \/ \E res \in HealthOutcomes : HealthResult(res)
    \/ SessionsOk
    \/ SessionsFail

SpecTimer == Init /\ [][NextTimer]_vars

\* the browser fires a scheduled timeout, and every fetch resolves or
\* rejects; clicks, visibility changes and leaving the layout are up to the
\* user
FairTimer ==
    /\ WF_vars(TimerFire)
    /\ WF_vars(\E res \in HealthOutcomes : HealthResult(res))
    /\ WF_vars(SessionsOk \/ SessionsFail)

SpecTimerFair == SpecTimer /\ FairTimer

(***************************************************************************)
(* Vocabulary of the properties.                                           *)
(***************************************************************************)
Ids == 1..Len(streams)

Last(q) == q[Len(q)]

IsText(it) == it.type = "text"

IsValid(it) == it.type # "bad"

\* the contents of the text events a script carries, in order
TextsOf(script) ==
    LET t == SelectSeq(script, IsText)
    IN  [k \in 1..Len(t) |-> t[k].content]

\* Tn, or the empty string when the script carries no text event
LastTextOf(script) ==
    IF TextsOf(script) = E THEN E ELSE Last(TextsOf(script))

\* the records of a script that lie wholly within its first pos symbols
RECURSIVE Delivered(_, _)
Delivered(script, pos) ==
    IF script = E \/ Len(Encode(Head(script))) > pos THEN E
    ELSE <<Head(script)>>
         \o Delivered(Tail(script), pos - Len(Encode(Head(script))))

\* the loop state of a call that has read nothing
Loop0 == Loop(E, E, E, E, E, "none")

\* steps of stream i
Submitted == Len(streams') = Len(streams) + 1

Ended(i) == streams[i].phase = "reading" /\ streams'[i].phase = "done"

Failed(i) == Open(i) /\ streams'[i].phase = "failed"

HasRead(i) ==
    /\ streams[i].phase = "reading"
    /\ streams'[i].phase = "reading"
    /\ streams'[i].pos > streams[i].pos

\* the events stream i dispatched in this step
NewEvents(i) ==
    SubSeq(streams'[i].events, Len(streams[i].events) + 1,
           Len(streams'[i].events))

(***************************************************************************)
(* Properties.                                                             *)
(***************************************************************************)

\* C1: when a stream that delivered the text events T1..Tn (n >= 1), with
\* any tool events in between, ends, the step appends one ai message whose
\* content is Tn, the content of the last text event.
C1_LastTextWins ==
    [][\A i \in Ids :
          (Ended(i) /\ TextsOf(ScriptList[streams[i].script]) # E)
          => messages' = Append(messages,
                 Message("ai", Last(TextsOf(ScriptList[streams[i].script]))))]_vars

\* a stream that delivered tool "s", text "a", text "ab" has ended and the
\* transcript ends with the ai message "ab"
C1_Witness ==
    /\ \E i \in Ids : streams[i].phase = "done"
    /\ messages # E
    /\ Last(messages) = Message("ai", <<"a", "b">>)

\* C2: a submit appends the human message u to the transcript M at once;
\* when the stream of a cycle that ran on its own (no other send, navigation
\* or history load since it was idle) ends, the transcript is M + [human u,
\* ai c] with c the last text event's content or the empty string, both
\* buffers are empty and isLoading is false.
C2_CycleTranscript ==
    [][/\ Submitted =>
            /\ messages' = Append(messages, Message("human", Trim(input)))
            /\ Last(streams').base = messages'
       /\ \A i \in Ids :
            (Ended(i) /\ streams[i].alone) =>
               /\ messages' = Append(streams[i].base,
                      Message("ai", LastTextOf(ScriptList[streams[i].script])))
               /\ streamingMessage' = E
               /\ liveToolActivity' = E
               /\ isLoading' = FALSE]_vars

\* the end-to-end example: from the welcome screen, "h" was sent and the
\* stream tool, "a", "ab" has ended
C2_Witness ==
    /\ Len(streams) = 1
    /\ streams[1].phase = "done"
    /\ navCount = 0
    /\ messages = <<Message("human", <<"h">>), Message("ai", <<"a", "b">>)>>
    /\ streamingMessage = E
    /\ liveToolActivity = E
    /\ ~isLoading

\* C3: at most one chat stream is open at any time.
C3_OneStreamOpen == Cardinality(OpenStreams) <= 1

\* C4: a history fetch for session s that resolves while s is not the
\* current session leaves the transcript as it is.
C4_StaleHistoryDiscarded ==
    [][\A s \in Sessions :
          (historyFetches'[s] < historyFetches[s] /\ currentSessionId # s)
          => messages' = messages]_vars

\* C5: once the whole body has been read, in whatever chunks, the events the
\* client has interpreted are those it interprets when the body arrives as
\* one chunk.
C5_ChunkingInvariant ==
    \A i \in Ids :
        LET wire == WireOf(ScriptList[streams[i].script])
        IN  (streams[i].phase = "reading" /\ streams[i].pos = Len(wire))
            => streams[i].events = ProcessChunk(Loop0, wire).events

\* C6: no stream is ended by a malformed record, and what a stream has
\* dispatched and accumulated is what the same records without the
\* malformed ones give.
C6_MalformedSkipped ==
    \A i \in Ids :
        /\ streams[i].phase # "thrown"
        /\ streams[i].phase = "reading" =>
             LET sent == Delivered(ScriptList[streams[i].script], streams[i].pos)
                 ref  == ProcessChunk(Loop0, WireOf(SelectSeq(sent, IsValid)))
             IN  /\ streams[i].events = ref.events
                 /\ streams[i].accumulatedText = ref.accumulatedText

\* a stream has read text "b", a malformed record and tool "s", and has
\* dispatched the two valid events
C6_Witness ==
    \E i \in Ids :
        /\ streams[i].phase = "reading"
        /\ \E it \in {Delivered(ScriptList[streams[i].script], streams[i].pos)[k] :
                        k \in 1..Len(Delivered(ScriptList[streams[i].script],
                                               streams[i].pos))} : ~IsValid(it)
        /\ streams[i].events = <<Item("text", <<"b">>), Item("tool", <<"s">>)>>
        /\ streams[i].accumulatedText = <<"b">>

\* C7: when a chat request or a read fails, both buffers are empty, the
\* page is idle and the transcript is as it was (no ai message).
C7_FailureClears ==
    [][\A i \in Ids :
          Failed(i) =>
             /\ streamingMessage' = E
             /\ liveToolActivity' = E
             /\ isLoading' = FALSE
             /\ messages' = messages]_vars

\* C8: a submit appends the trimmed input as a human message, leaves both
\* buffers empty and sets isLoading.
C8_SubmitClears ==
    [][Submitted =>
          /\ messages' = Append(messages, Message("human", Trim(input)))
          /\ streamingMessage' = E
          /\ liveToolActivity' = E
          /\ isLoading' = TRUE]_vars

\* C9: a read whose last event is a text event leaves liveToolActivity empty
\* and streamingMessage equal to that event's content, whatever tool label
\* was shown before it.
C9_TextSupersedesTool ==
    [][\A i \in Ids :
          (HasRead(i) /\ NewEvents(i) # E /\ Last(NewEvents(i)).type = "text")
          => /\ liveToolActivity' = E
             /\ streamingMessage' = Last(NewEvents(i)).content]_vars

\* a stream has dispatched tool "s" and then text "a": the badge is gone
\* and the streaming text is "a"
C9_Witness ==
    \E i \in Ids :
        /\ streams[i].phase = "reading"
        /\ streams[i].events = <<Item("tool", <<"s">>), Item("text", <<"a">>)>>
        /\ liveToolActivity = E
        /\ streamingMessage = <<"a">>

AllTool(evs) == \A k \in 1..Len(evs) : evs[k].type = "tool"

\* C11: a read never changes the transcript; after a read whose last event
\* is a tool event liveToolActivity is that event's content, whatever label
\* was shown before; a read that dispatches tool events only leaves
\* streamingMessage and the accumulated reply text as they were.
C11_ToolFrame ==
    [][\A i \in Ids :
          HasRead(i) =>
             /\ messages' = messages
             /\ (NewEvents(i) # E /\ Last(NewEvents(i)).type = "tool")
                => liveToolActivity' = Last(NewEvents(i)).content
             /\ (NewEvents(i) # E /\ AllTool(NewEvents(i)))
                => /\ streamingMessage' = streamingMessage
                   /\ streams'[i].accumulatedText = streams[i].accumulatedText]_vars

\* a stream has dispatched tool "s" and then tool "b": the label is "b",
\* nothing is streamed and the transcript holds the human message alone
C11_Witness ==
    \E i \in Ids :
        /\ streams[i].phase = "reading"
        /\ streams[i].events = <<Item("tool", <<"s">>), Item("tool", <<"b">>)>>
        /\ liveToolActivity = <<"b">>
        /\ streamingMessage = E
        /\ streams[i].accumulatedText = E
        /\ messages = <<Message("human", <<"h">>)>>

\* C12: a switch to a session empties the transcript; once the transcript
\* is the fetched history of the current session, it stays exactly that
\* until the next submit or switch, whatever streams and fetches were in
\* flight at the switch.
C12_TranscriptIsHistory ==
    [][/\ (sessionIdFromUrl' \in Sessions /\ sessionIdFromUrl' # sessionIdFromUrl)
          => messages' = E
       /\ (/\ currentSessionId \in Sessions
           /\ messages = HistoryOf(currentSessionId)
           /\ currentSessionId' = currentSessionId
           /\ ~Submitted)
          => messages' = messages]_vars

\* p is an initial part of q
IsPrefix(p, q) == Len(p) <= Len(q) /\ SubSeq(q, 1, Len(p)) = p

\* a step of a response cycle: a response, a read, an end or a failure
StreamStep ==
    \E i \in Ids :
        \/ streams'[i].phase # streams[i].phase
        \/ streams'[i].pos # streams[i].pos

\* C13: every step of a submit or of a stream leaves the messages already
\* in the transcript where they are, with their role and content, and at
\* most appends to them.
C13_AppendOnly ==
    [][(Submitted \/ StreamStep) => IsPrefix(messages, messages')]_vars

\* session A was opened and its history loaded, then "h" was sent and the
\* reply "ab" committed: the history is still there, in front
C13_Witness ==
    /\ currentSessionId = "A"
    /\ messages = HistoryOf("A") \o <<Message("human", <<"h">>),
                                      Message("ai", <<"a", "b">>)>>

\* C14: a step starts at most one chat request, and only a submit starts
\* one; a request that has been answered is never sent again and a call that
\* has returned never comes back; the step in which a request fails or a
\* stream ends, in whatever way, leaves isLoading false.
C14_OneRequestThenIdle ==
    [][/\ Len(streams') \in {Len(streams), Len(streams) + 1}
       /\ Submitted => Last(streams').phase = "fetching"
       /\ \A i \in Ids :
            /\ ~Open(i) => streams'[i].phase = streams[i].phase
            /\ streams[i].phase = "reading" => streams'[i].phase # "fetching"
            /\ (Open(i) /\ streams'[i].phase \notin {"fetching", "reading"})
               => isLoading' = FALSE]_vars

\* the first request failed and the page, idle again, has taken the next
\* submit
C14_Witness ==
    /\ Len(streams) = 2
    /\ streams[1].phase = "failed"
    /\ streams[2].phase = "fetching"
    /\ isLoading

\* C15: while systemStatus is "offline" no step starts a chat request and
\* no step follows a session link of the sidebar.
C15_OfflineDisables ==
    [][isOffline =>
          /\ ~Submitted
          /\ ~(sessionIdFromUrl' \in Sessions
               /\ sessionIdFromUrl' # sessionIdFromUrl)]_vars

\* offline with a message typed, the page idle and session A in the list:
\* all that keeps the send and the link back is systemStatus
C15_Witness ==
    /\ isOffline
    /\ Trim(input) # E
    /\ ~isLoading
    /\ Len(streams) < MaxCycles
    /\ ~isLoadingSessions
    /\ Listed(sessions, "A")
    /\ sessionIdFromUrl # "A"
    /\ navCount < MaxNav

\* the labels of the endpoints k, k+1, ... whose GET did not answer 2xx
RECURSIVE FailingFrom(_, _)
FailingFrom(res, k) ==
    IF k > Len(res) THEN E
    ELSE (IF res[k] = "ok" THEN E ELSE <<HEALTH_ENDPOINTS[k]>>)
         \o FailingFrom(res, k + 1)

\* C16: once a health check has resolved, the status it gave is "online"
\* exactly when every endpoint answered 2xx and "offline" otherwise, and the
\* failures are the labels of the endpoints that threw or answered non-2xx,
\* in endpoint order; a GET that throws does not reject the check.
C16_CheckHealth ==
    healthResults # E =>
        /\ systemStatus \in {"online", "offline"}
        /\ systemStatus = "online"
           <=> \A k \in 1..Len(healthResults) : healthResults[k] = "ok"
        /\ systemFailures = FailingFrom(healthResults, 1)

\* the GET of the one endpoint threw: the check resolved with "offline" and
\* the endpoint's label
C16_Witness ==
    /\ healthResults = <<"throw">>
    /\ systemStatus = "offline"
    /\ systemFailures = <<"Sessions API">>

\* C17: the step in which a rename or delete request fails, by a network
\* error or by a non-2xx answer, leaves the cached list equal to the
\* backend's list or starts the fetch that rolls the change back; the step
\* in which it succeeds leaves the cached list as it is.
C17_RollbackOnFailure ==
    [][\A k \in 1..Len(edits) :
          /\ (edits[k].phase = "sent" /\ edits'[k].phase \in {"non2xx", "threw"})
             => (sessions' = backend' \/ sessionFetches' = sessionFetches + 1)
          /\ (edits[k].phase = "sent" /\ edits'[k].phase = "ok")
             => sessions' = sessions]_vars

\* C18: the step in which a history fetch resolves leaves isLoading false
\* and starts no fetch, and unless it applies the fetched history (a 2xx
\* answer) it leaves the transcript empty or unchanged; the step in which a
\* session-list fetch resolves leaves isLoadingSessions false and starts no
\* fetch, and unless it applies the backend's list it leaves the cached list
\* unchanged.
C18_FailedFetch ==
    [][/\ \A s \in Sessions :
            historyFetches'[s] < historyFetches[s] =>
               /\ isLoading' = FALSE
               /\ \A t \in Sessions : historyFetches'[t] <= historyFetches[t]
               /\ sessionFetches' = sessionFetches
               /\ messages' # HistoryOf(s) => messages' \in {E, messages}
       /\ sessionFetches' < sessionFetches =>
               /\ isLoadingSessions' = FALSE
               /\ sessionFetches' = sessionFetches - 1
               /\ historyFetches' = historyFetches
               /\ sessions' # backend => sessions' = sessions]_vars

\* session A is open with an empty transcript and the list is empty, both
\* idle with nothing in flight: the history fetch and the list fetch failed
C18_Witness ==
    /\ currentSessionId = "A"
    /\ historyFetches["A"] = 0
    /\ messages = E
    /\ ~isLoading
    /\ sessionFetches = 0
    /\ ~isLoadingSessions
    /\ sessions = E
    /\ backend # E

\* the records and fragments stream i received in this step
NewItems(i) ==
    LET script == ScriptList[streams[i].script]
        before == Delivered(script, streams[i].pos)
        after  == Delivered(script, streams'[i].pos)
    IN  SubSeq(after, Len(before) + 1, Len(after))

\* a well-formed record with an unknown type, or with none
IsForeign(it) == it.type \in {"other", "none"}

\* a well-formed record of a type the page knows
IsEvent(it) == it.type \in {"tool", "text"}

\* C19: a read that delivers only well-formed records whose type is neither
\* "tool" nor "text", or is missing, changes neither the transcript nor the
\* two buffers nor the accumulated reply and dispatches nothing; a read that
\* delivers such a record among others dispatches the others, in order; no
\* read ends the stream.
C19_UnknownTypeIgnored ==
    [][\A i \in Ids :
          /\ streams'[i].phase # "thrown"
          /\ HasRead(i) =>
               /\ (\A k \in 1..Len(NewItems(i)) : IsForeign(NewItems(i)[k]))
                  => /\ messages' = messages
                     /\ streamingMessage' = streamingMessage
                     /\ liveToolActivity' = liveToolActivity
                     /\ streams'[i].accumulatedText = streams[i].accumulatedText
                     /\ NewEvents(i) = E
               /\ (\E k \in 1..Len(NewItems(i)) : IsForeign(NewItems(i)[k]))
                  => NewEvents(i) = SelectSeq(NewItems(i), IsEvent)]_vars

\* a stream has read tool "s", tool "b", a record of unknown type and one
\* without type: the label is still "b" and two events were dispatched
C19_Witness ==
    \E i \in Ids :
        /\ streams[i].phase = "reading"
        /\ Len(Delivered(ScriptList[streams[i].script], streams[i].pos)) = 4
        /\ IsForeign(Delivered(ScriptList[streams[i].script], streams[i].pos)[4])
        /\ streams[i].events = <<Item("tool", <<"s">>), Item("tool", <<"b">>)>>
        /\ liveToolActivity = <<"b">>
        /\ streamingMessage = E

\* a fragment that begins with the prefix `data: `
HasPrefix(it) == it.type \notin {"comment", "raw", "named"}

\* C20: a read that delivers only fragments without the prefix `data: `
\* changes neither the transcript nor the two buffers nor the accumulated
\* reply; of the fragments of any chunk, cut at the blank lines, exactly the
\* well-formed tool and text records that begin with the prefix are
\* dispatched, in the order of the body.
C20_FragmentsInOrder ==
    [][\A i \in Ids :
          HasRead(i) =>
             /\ (\A k \in 1..Len(NewItems(i)) : ~HasPrefix(NewItems(i)[k]))
                => /\ messages' = messages
                   /\ streamingMessage' = streamingMessage
                   /\ liveToolActivity' = liveToolActivity
                   /\ streams'[i].accumulatedText = streams[i].accumulatedText
             /\ NewEvents(i) = SelectSeq(NewItems(i), IsEvent)]_vars

\* a stream has read a comment, text "a", a tool record without the prefix,
\* a text record behind an `event:` line and tool "s": text "a" and tool
\* "s" were dispatched, in that order
C20_Witness ==
    \E i \in Ids :
        /\ streams[i].phase = "reading"
        /\ Len(Delivered(ScriptList[streams[i].script], streams[i].pos)) = 5
        /\ \E k \in 1..5 :
             ~HasPrefix(Delivered(ScriptList[streams[i].script], streams[i].pos)[k])
        /\ streams[i].events = <<Item("text", <<"a">>), Item("tool", <<"s">>)>>
        /\ streamingMessage = <<"a">>
        /\ liveToolActivity = <<"s">>

\* the text of bytes that were never cut: U+E9 for each pair c3 a9
RECURSIVE TextOf(_)
TextOf(bytes) ==
    IF bytes = E THEN E
    ELSE IF Len(bytes) >= 2 /\ bytes[1] = "c3" /\ bytes[2] = "a9"
         THEN <<"U+E9">> \o TextOf(Tail(Tail(bytes)))
         ELSE <<Head(bytes)>> \o TextOf(Tail(bytes))

\* the number of bytes up to pos that end with a whole code point
Whole(wire, pos) == IF pos > 0 /\ wire[pos] = "c3" THEN pos - 1 ELSE pos

\* C21: whatever the cuts between the reads, the text the decoder has given
\* out so far is the text of the unsplit bytes up to the last whole code
\* point, the bytes of an unfinished code point are held back for the next
\* read, and no replacement character appears.
C21_StatefulDecode ==
    \A i \in Ids :
        streams[i].phase = "reading" =>
            LET wire == WireOf(ScriptList[streams[i].script])
                pos  == streams[i].pos
                w    == Whole(wire, pos)
            IN  /\ streams[i].decoded = TextOf(SubSeq(wire, 1, w))
                /\ streams[i].pending = SubSeq(wire, w + 1, pos)
                /\ \A k \in 1..Len(streams[i].decoded) :
                       streams[i].decoded[k] # "U+FFFD"

\* a body was read to its end with a read that ended between the two bytes
\* of U+E9: the decoded text is that of the whole body
C21_Witness ==
    \E i \in Ids :
        /\ streams[i].phase = "reading"
        /\ streams[i].splitReads > 0
        /\ streams[i].pending = E
        /\ streams[i].pos = Len(WireOf(ScriptList[streams[i].script]))
        /\ streams[i].decoded = TextOf(WireOf(ScriptList[streams[i].script]))
        /\ \E k \in 1..Len(streams[i].decoded) : streams[i].decoded[k] = "U+E9"

(***************************************************************************)
(* The health check's triggers.                                            *)
(***************************************************************************)
\* C22: while the Sidebar is mounted, health checks are started again and
\* again: at every time a health check is in flight now or later, also in
\* a behaviour without clicks and visibility changes.
C22_RepeatingTimer == []<>(mounted => healthChecks > 0)

\* C23: at most one debounce timeout is pending, and debounceTimer holds it;
\* a timeout is scheduled only by a step that starts with none pending (a
\* click while one is pending schedules nothing); a timeout that fires
\* starts exactly one health check and leaves debounceTimer null, so that
\* the next click schedules again; leaving the layout cancels the pending
\* timeout and starts nothing; and a visibility change to visible can start
\* a health check whatever the timer is, and leaves the timer as it is.
C23_OneDebounceTimer ==
    [][/\ timers' <= 1
       /\ debounceTimer' <=> (timers' = 1)
       /\ timers' > timers => ~debounceTimer /\ timers = 0
       /\ (timers' < timers /\ mounted') =>
              /\ healthChecks' = healthChecks + 1
              /\ ~debounceTimer'
              /\ ENABLED Click
       /\ (mounted /\ ~mounted') =>
              timers' = 0 /\ healthChecks' = healthChecks
       /\ (mounted /\ healthChecks < MaxInFlight) => ENABLED Visible
       /\ (healthChecks' > healthChecks /\ timers' = timers) =>
              debounceTimer' = debounceTimer]_vars

\* a timeout is pending while the health check of an earlier timeout or of
\* a visibility change is in flight next to the one of the mount
C23_Witness ==
    /\ mounted
    /\ debounceTimer
    /\ timers = 1
    /\ healthChecks = 2

(***************************************************************************)
(* Recovery of the backend.                                                *)
(***************************************************************************)
\* a step in which `await checkHealth()` of a health check has resolved
HealthCompletes == healthChecks' < healthChecks

\* C24: a health check that completes starts a session-list fetch exactly
\* when its status is "online" and the status recorded by the check that
\* completed before it (or "checking" before the first) was not "online",
\* and it records its own status; so of the checks of overlapping runs, in
\* the order in which they complete, the first "online" after a run of
\* other results starts one fetch and the "online" ones after it start none.
C24_RefreshOnRecovery ==
    [][HealthCompletes =>
          LET online == \A k \in 1..Len(healthResults') :
                            healthResults'[k] = "ok"
          IN  /\ prevStatusRef' = IF online THEN "online" ELSE "offline"
              /\ IF online /\ prevStatusRef # "online"
                 THEN /\ sessionFetches' = sessionFetches + 1
                      /\ isLoadingSessions'
                 ELSE /\ sessionFetches' = sessionFetches
                      /\ isLoadingSessions' = isLoadingSessions]_vars

\* a health check has completed "online" after a recorded status that was
\* not "online", and the refresh it started is in flight next to another
C24_Witness ==
    /\ systemStatus = "online"
    /\ prevStatusRef = "online"
    /\ healthResults = <<"ok">>
    /\ healthChecks = 0
    /\ sessionFetches = 2
    /\ isLoadingSessions

(***************************************************************************)
(* Notification of the Sidebar.                                            *)
(***************************************************************************)
\* C25: the step in which a stream ends normally appends the ai message and
\* starts one session-list fetch (the Sidebar's answer to session-updated);
\* a step in which a cycle fails or finds no body, and every other step of
\* a cycle after its submit, starts none.
C25_NotifyOnNormalEnd ==
    [][/\ \A i \in Ids :
            /\ Ended(i) =>
                   /\ messages' = Append(messages,
                         Message("ai", streams[i].accumulatedText))
                   /\ sessionFetches' = sessionFetches + 1
                   /\ isLoadingSessions'
            /\ (Open(i) /\ streams'[i].phase \in {"failed", "nobody", "thrown"})
                   => /\ sessionFetches' = sessionFetches
                      /\ isLoadingSessions' = isLoadingSessions
       /\ (StreamStep /\ ~(\E i \in Ids : Ended(i)))
              => sessionFetches' = sessionFetches]_vars

\* from the welcome screen one cycle failed and the next ended normally:
\* the fetches of mount, of the new session id and of the one notification
C25_Witness ==
    /\ Len(streams) = 2
    /\ streams[1].phase = "failed"
    /\ streams[2].phase = "done"
    /\ navCount = 0
    /\ uuidCount = 1
    /\ Last(messages).role = "ai"
    /\ sessionFetches = 3

(***************************************************************************)
(* The first message of a new session.                                     *)
(***************************************************************************)
\* C26: while the response cycle of a first message sent from the welcome
\* screen is open and its new session is the current one, the transcript
\* begins with what the submit left: the human message is not wiped.
C26_HumanMessageKept ==
    \A i \in Ids :
        (/\ Open(i)
         /\ streams[i].session \notin Sessions \cup {""}
         /\ currentSessionId = streams[i].session)
        => IsPrefix(streams[i].base, messages)

(***************************************************************************)
(* Deleting a session.                                                     *)
(***************************************************************************)
\* a step in which handleDelete(id) is called
DeleteStep(id) ==
    /\ Len(edits') = Len(edits) + 1
    /\ Last(edits').op = "delete"
    /\ Last(edits').id = id

\* C27: a delete removes the row of its session, and no other, from the
\* cached list; a delete of the current session leaves the page on the
\* welcome screen with no current session and an empty transcript; a
\* delete of any other session leaves the current session, the URL and the
\* transcript as they are.
C27_DeleteActive ==
    [][\A id \in {"A", "B"} :
          DeleteStep(id) =>
              /\ ~Listed(sessions', id)
              /\ Len(sessions') = Len(sessions) - 1
              /\ IF currentSessionId = id
                 THEN /\ currentSessionId' = ""
                      /\ sessionIdFromUrl' = ""
                      /\ messages' = E
                 ELSE /\ currentSessionId' = currentSessionId
                      /\ sessionIdFromUrl' = sessionIdFromUrl
                      /\ messages' = messages]_vars

\* session A was open with its history shown; B was deleted, then A: the
\* list is empty and the page is on the welcome screen
C27_Witness ==
    /\ Len(edits) = 2
    /\ edits[1].op = "delete" /\ edits[1].id = "B"
    /\ edits[2].op = "delete" /\ edits[2].id = "A"
    /\ historyFetches["A"] = 0
    /\ sessions = E
    /\ currentSessionId = ""
    /\ sessionIdFromUrl = ""
    /\ messages = E

(***************************************************************************)
(* Streams and the current session.                                        *)
(***************************************************************************)
\* C28: a stream that ends appends its ai message only while the session
\* it was started for is the current one; when another session, or none,
\* is current, the transcript stays as it is.
C28_OwnSessionOnly ==
    [][\A i \in Ids :
          (Ended(i) /\ streams[i].session # currentSessionId)
              => messages' = messages]_vars

(***************************************************************************)
(* Status and failures.                                                    *)
(***************************************************************************)
\* C29: systemStatus is "checking" exactly until the first health check
\* has completed; "online" goes with an empty systemFailures and "offline"
\* with a non-empty one, whatever the order in which overlapping health
\* checks complete.
C29_StatusAndFailures ==
    /\ systemStatus = "checking" <=> healthResults = E
    /\ systemStatus = "online" => systemFailures = E
    /\ systemStatus = "offline" => systemFailures # E

\* a health check has completed "online" while another, started by a
\* visibility change, is still in flight
C29_Witness ==
    /\ systemStatus = "online"
    /\ systemFailures = E
    /\ healthResults = <<"ok">>
    /\ healthChecks = 1
====
